---- MODULE Spec2Model ----
(***************************************************************************)
(* Receipt processing function (funcx-v7/receipt_processor/__init__.py):   *)
(* the Event Grid handler func701, the username resolver                   *)
(* get_username_from_db and the field helpers get_field_value and          *)
(* get_field_confidence, as a state machine over one host delivering       *)
(* events to the handler.                                                  *)
(***************************************************************************)
EXTENDS Integers, Sequences, FiniteSets, TLC

VARIABLES
    budget,              \* invocations the host will still deliver
    pc,                  \* position of the handler (or of the resolver it called)
    event,               \* the EventGridEvent of the current invocation
    env,                 \* os.environ, as far as the code reads it
    blob_url, blob_path, container_name, user_id, random_subdirectory,
    username,            \* func701's local (line 172)
    cnx, cursor,         \* get_username_from_db: the connection and the cursor
    ssl_options,         \* get_username_from_db: its local ssl_options
    db_username,         \* get_username_from_db: its local `username`
    pending,             \* get_username_from_db: what is in flight when finally runs
    db_fault,            \* the step of the username lookup that failed, if any
    blob_content,        \* "none", "raw" or "gray"
    receipt_result,      \* what poller.result() returned
    fecha_transaccion, monto_total, extracted_items, full_receipt_data,
    item_confidences,
    calls,               \* collaborators called during the current invocation
    fault,               \* the step of the current invocation that failed, if any
    outcome,             \* how the current (or last) invocation ended
    raised,              \* an exception left func701
    response,            \* what func701 returned
    docs,                \* the items of the Cosmos DB container
    field, fieldOut      \* get_field_value: an argument and its result

vars == <<budget, pc, event, env, blob_url, blob_path, container_name, user_id,
          random_subdirectory, username, cnx, cursor, ssl_options, db_username,
          pending, db_fault,
          blob_content, receipt_result, fecha_transaccion, monto_total,
          extracted_items, full_receipt_data, item_confidences, calls, fault,
          outcome, raised, response, docs, field, fieldOut>>

(***************************************************************************)
(* Bounds of the model.                                                    *)
(***************************************************************************)
MaxTail == 7      \* tokens of a blob URL after "https://host"
MaxItems == 2     \* entries of the Items array
MaxRuns == 2      \* invocations in the specification of repeated events
MaxIds == 2       \* identifiers uuid4 may produce

(***************************************************************************)
(* Python values.  Every value is a tagged record, so that values of       *)
(* different Python types can be compared.  A str is a sequence of tokens. *)
(***************************************************************************)
Null == [t |-> "null", v |-> <<>>]
Missing == [t |-> "missing", v |-> <<>>]       \* hasattr(...) is False
Raises == [t |-> "raise", v |-> <<>>]          \* the call raised
Str(s) == [t |-> "str", v |-> s]
Num(n) == [t |-> "num", v |-> <<n>>]
Date(y, m, d) == [t |-> "date", v |-> <<y, m, d>>]
Time(h, m, s) == [t |-> "time", v |-> <<h, m, s>>]
Currency(amount) == [t |-> "currency", v |-> <<amount>>]
EmptyDict == [k \in {} |-> Null]

IsNone(x) == x.t = "null"
\* hasattr(obj, name) and obj.name is not None
Populated(x) == x.t \notin {"missing", "null"}

(***************************************************************************)
(* str.split('/'), '/'.join(...), str.endswith(...) and list slicing.      *)
(***************************************************************************)
RECURSIVE Split(_)
Split(s) ==
    IF \A i \in 1..Len(s) : s[i] # "/"
    THEN <<s>>
    ELSE LET i == CHOOSE k \in 1..Len(s) :
                      s[k] = "/" /\ \A j \in 1..(k - 1) : s[j] # "/"
         IN  <<SubSeq(s, 1, i - 1)>> \o Split(SubSeq(s, i + 1, Len(s)))

RECURSIVE Join(_)
Join(parts) ==
    IF Len(parts) = 0 THEN <<>>
    ELSE IF Len(parts) = 1 THEN parts[1]
    ELSE parts[1] \o <<"/">> \o Join(Tail(parts))

EndsWith(s, suffix) ==
    /\ Len(s) >= Len(suffix)
    /\ SubSeq(s, Len(s) - Len(suffix) + 1, Len(s)) = suffix

\* parts[n:] for a 0-based n
SliceFrom(parts, n) ==
    IF Len(parts) <= n THEN <<>> ELSE SubSeq(parts, n + 1, Len(parts))

(***************************************************************************)
(* strftime('%Y-%m-%d') and strftime('%H:%M:%S') on a date and a time;     *)
(* on a value that is no date or time the attribute lookup raises.         *)
(***************************************************************************)
DigitChar(n) == <<"0", "1", "2", "3", "4", "5", "6", "7", "8", "9">>[n + 1]
Pad2(n) == <<DigitChar((n \div 10) % 10), DigitChar(n % 10)>>
Pad4(n) == Pad2(n \div 100) \o Pad2(n % 100)

strftime_date(x) ==
    IF x.t # "date" THEN Raises
    ELSE Str(Pad4(x.v[1]) \o <<"-">> \o Pad2(x.v[2]) \o <<"-">> \o Pad2(x.v[3]))

strftime_time(x) ==
    IF x.t # "time" THEN Raises
    ELSE Str(Pad2(x.v[1]) \o <<":">> \o Pad2(x.v[2]) \o <<":">> \o Pad2(x.v[3]))

(***************************************************************************)
(* A DocumentField: the SDK's typed representations, all None unless the   *)
(* service populated them; `value` is the generic attribute the code       *)
(* probes last.                                                            *)
(***************************************************************************)
BlankField ==
    [t |-> "field", value_string |-> Null, value_number |-> Null,
     value_date |-> Null, value_time |-> Null, value_currency |-> Null,
     value |-> Missing, value_array |-> Null, value_object |-> Null,
     confidence |-> Null]

\* lines 102-105, as a bug would have it: the number probed before the string
get_field_value_number_first(f) ==
    IF IsNone(f) THEN Null
    ELSE IF Populated(f.value_number) THEN f.value_number
    ELSE IF Populated(f.value_string) THEN f.value_string
    ELSE IF Populated(f.value_date) THEN strftime_date(f.value_date)
    ELSE IF Populated(f.value_time) THEN strftime_time(f.value_time)
    ELSE IF Populated(f.value_currency) /\ Populated(f.value_currency.v[1])
         THEN f.value_currency.v[1]
    ELSE IF Populated(f.value) THEN f.value
    ELSE Null

\* lines 96-115
get_field_value(f) ==
    IF IsNone(f) THEN Null
    ELSE IF Populated(f.value_string) THEN f.value_string
    ELSE IF Populated(f.value_number) THEN f.value_number
    ELSE IF Populated(f.value_date) THEN strftime_date(f.value_date)
    ELSE IF Populated(f.value_time) THEN strftime_time(f.value_time)
    ELSE IF Populated(f.value_currency) /\ Populated(f.value_currency.v[1])
         THEN f.value_currency.v[1]
    ELSE IF Populated(f.value) THEN f.value
    ELSE Null

\* lines 117-123
get_field_confidence(f) ==
    IF IsNone(f) THEN Null
    ELSE IF f.confidence.t # "missing" THEN f.confidence ELSE Null

(***************************************************************************)
(* The environment and the inputs of the handler.                          *)
(***************************************************************************)
\* which groups of settings os.environ holds
Envs == [mysql : BOOLEAN, di : BOOLEAN, storage : BOOLEAN, cosmos : BOOLEAN]
FullEnv == [mysql |-> TRUE, di |-> TRUE, storage |-> TRUE, cosmos |-> TRUE]

SubscriptionValidationEvent == "Microsoft.EventGrid.SubscriptionValidationEvent"
BlobCreatedEvent == "Microsoft.Storage.BlobCreated"

\* event.get_json() of a JSON object; a key the object lacks is Missing
Payload(url, code) == [t |-> "dict", url |-> url, validationCode |-> code]
NotAnObject == [t |-> "null", url |-> Missing, validationCode |-> Missing]
BlobCreated(url) == [event_type |-> BlobCreatedEvent, data |-> Payload(url, Missing)]
NoEvent == [event_type |-> "", data |-> NotAnObject]

UrlPrefix == <<"https:", "/", "/", "host">>
Tokens == {"/", "u", ".placeholder"}
Tails(n) == UNION {[1..k -> Tokens] : k \in 0..n}
AllUrls == {UrlPrefix \o t : t \in Tails(MaxTail)}

ReceiptUrl == UrlPrefix \o <<"/", "c", "/", "u", "/", "s", "/", "f">>
PlaceholderUrl == UrlPrefix \o <<"/", "c", "/", "u", "/", "s", "/", ".placeholder">>
ShortUrl == UrlPrefix \o <<"/", "c", "/", "f">>

Events ==
    {BlobCreated(Str(ReceiptUrl)), BlobCreated(Str(PlaceholderUrl)),
     BlobCreated(Str(ShortUrl)), BlobCreated(Str(<<"f">>)), BlobCreated(Str(<<>>)),
     BlobCreated(Missing), BlobCreated(Num(5)),
     [event_type |-> BlobCreatedEvent, data |-> NotAnObject],
     [event_type |-> SubscriptionValidationEvent,
      data |-> Payload(Missing, Str(<<"abc123">>))],
     [event_type |-> SubscriptionValidationEvent, data |-> NotAnObject],
     [event_type |-> "Microsoft.Storage.BlobDeleted", data |-> Payload(Missing, Missing)]}

PathEvents == {BlobCreated(Str(u)) : u \in AllUrls}
RepeatEvents == {BlobCreated(Str(ReceiptUrl))}

(***************************************************************************)
(* Analysis results of the extraction service.                             *)
(***************************************************************************)
FStr == [BlankField EXCEPT !.value_string = Str(<<"a">>), !.confidence = Num(9000)]
FNum == [BlankField EXCEPT !.value_number = Num(5), !.confidence = Num(8000)]
FDate == [BlankField EXCEPT !.value_date = Date(2024, 1, 5), !.confidence = Num(9500)]
FCur == [BlankField EXCEPT !.value_currency = Currency(Num(7)), !.confidence = Num(7000)]
\* a field the service returned without any value
FEmpty == [BlankField EXCEPT !.confidence = Num(1000)]
\* a field whose value_date is no date object: strftime raises
FBad == [BlankField EXCEPT !.value_date = Str(<<"x">>)]

Object(o) == [t |-> "object", v |-> o]
Array(a) == [t |-> "array", v |-> a]
Entry(o) == [BlankField EXCEPT !.value_object = Object(o)]

Entries ==
    {FEmpty,
     Entry(EmptyDict),
     Entry([Description |-> FStr]),
     Entry([Description |-> FEmpty]),
     Entry([Other |-> FStr]),
     Entry([Quantity |-> FBad]),
     Entry([Description |-> FStr, Quantity |-> FNum, TotalPrice |-> FCur,
            UnitPrice |-> FNum])}

ItemArrays(n) == UNION {[1..k -> Entries] : k \in 0..n}
ItemsField(a) == [BlankField EXCEPT !.value_array = Array(a)]

Document(fields) == [fields |-> fields]
AnalyzeResult(documents) == [t |-> "result", documents |-> documents]

\* the fields of a document: the given optional fields, those that are Missing left out
Fields(fecha, monto, items, others) ==
    LET named == [FechaTransaccion |-> fecha, MontoTotal |-> monto, Items |-> items]
        keep == {k \in DOMAIN named : named[k].t # "missing"}
    IN  [k \in keep |-> named[k]] @@ others

OtherFieldSets ==
    {EmptyDict,
     [NombreComercio |-> FStr, MontoIVA |-> FCur],
     [BaseImponible |-> FBad]}

\* the inputs of the full pipeline: every combination of the required fields
Results ==
    {AnalyzeResult(<<>>),
     AnalyzeResult(<<Document(Fields(FDate, FNum, Missing, EmptyDict)),
                     Document(Fields(Missing, Missing, Missing, EmptyDict))>>)}
    \cup {AnalyzeResult(<<Document(Fields(f, m, i, o))>>) :
              f \in {Missing, FDate, FEmpty},
              m \in {Missing, FNum, FCur, FEmpty},
              i \in {Missing, BlankField,
                     ItemsField(<<Entry([Description |-> FStr])>>)},
              o \in OtherFieldSets}

\* the inputs for the Items array: every array of entries up to MaxItems
ItemResults ==
    {AnalyzeResult(<<Document(Fields(FDate, FNum, ItemsField(a), EmptyDict))>>) :
        a \in ItemArrays(MaxItems)}

GoodResult ==
    AnalyzeResult(<<Document(Fields(FDate, FNum,
                                    ItemsField(<<Entry([Description |-> FStr])>>),
                                    [NombreComercio |-> FStr]))>>)
RepeatResults ==
    {GoodResult, AnalyzeResult(<<Document(Fields(FDate, Missing, Missing, EmptyDict))>>)}

(***************************************************************************)
(* The arguments of get_field_value: every combination of representations. *)
(***************************************************************************)
TypedFields ==
    {Null} \cup
    {[BlankField EXCEPT !.value_string = s, !.value_number = n, !.value_date = d,
                        !.value_time = tm, !.value_currency = c, !.value = g] :
        s \in {Missing, Null, Str(<<"a">>), Str(<<>>)},
        n \in {Null, Num(0), Num(5)},
        d \in {Missing, Null, Date(2024, 1, 5), Date(1999, 12, 31)},
        tm \in {Null, Time(9, 5, 0), Time(23, 59, 58)},
        c \in {Missing, Null, Currency(Missing), Currency(Null), Currency(Num(7))},
        g \in {Missing, Null, Str(<<"g">>)}}

(***************************************************************************)
(* The mapping of the first analysed document (lines 224-304).             *)
(***************************************************************************)
SubFieldKeys ==
    <<<<"Description", "description">>, <<"Quantity", "quantity">>,
      <<"TotalPrice", "totalPrice">>, <<"UnitPrice", "unitPrice">>>>

OtherFieldKeys ==
    <<<<"NombreComercio", "nombreComercio">>, <<"RIF-comercio", "rifComercio">>,
      <<"FacturaNumero", "facturaNumero">>, <<"NombreRazon", "nombreRazon">>,
      <<"RIF-CI", "rifCI">>, <<"MontoExento", "montoExento">>,
      <<"MontoIVA", "montoIVA">>, <<"BaseImponible", "baseImponible">>>>

\* `if "K" in obj: data["k"] = get_field_value(obj["K"])` for each K of keys in turn,
\* collecting each field's confidence; stops where get_field_value raises
RECURSIVE CopyFields(_, _, _)
CopyFields(obj, keys, acc) ==
    IF keys = <<>> \/ acc.raised THEN acc
    ELSE LET k == Head(keys) IN
         IF k[1] \notin DOMAIN obj THEN CopyFields(obj, Tail(keys), acc)
         ELSE LET v == get_field_value(obj[k[1]])
                  c == get_field_confidence(obj[k[1]])
              IN  IF v.t = "raise" THEN [acc EXCEPT !.raised = TRUE]
                  ELSE CopyFields(obj, Tail(keys),
                         [data |-> (k[2] :> v) @@ acc.data,
                          confs |-> IF IsNone(c) THEN acc.confs
                                    ELSE Append(acc.confs, c),
                          raised |-> FALSE])

\* lines 242: hasattr(item, 'value_object') and item.value_object
HasValueObject(item) ==
    /\ item.t = "field"
    /\ item.value_object.t = "object"
    /\ DOMAIN item.value_object.v # {}

\* line 268: `if item_data:`
ItemIncluded(item_data) == DOMAIN item_data # {}

\* lines 241-271: the loop over items_field.value_array
RECURSIVE MapItemArray(_, _)
MapItemArray(arr, acc) ==
    IF arr = <<>> \/ acc.raised THEN acc
    ELSE LET item == Head(arr) IN
         IF ~HasValueObject(item) THEN MapItemArray(Tail(arr), acc)
         ELSE LET r == CopyFields(item.value_object.v, SubFieldKeys,
                                  [data |-> EmptyDict, confs |-> acc.confs,
                                   raised |-> FALSE])
              IN  IF r.raised
                  THEN [items |-> acc.items, confs |-> r.confs, raised |-> TRUE]
                  ELSE MapItemArray(Tail(arr),
                         [items |-> IF ItemIncluded(r.data)
                                    THEN Append(acc.items, r.data)
                                    ELSE acc.items,
                          confs |-> r.confs, raised |-> FALSE])

RECURSIVE Sum(_)
Sum(confs) == IF confs = <<>> THEN 0 ELSE Head(confs).v[1] + Sum(Tail(confs))

\* round(sum / len, 4), a confidence being counted in units of 0.0001; an exact
\* tie, which the float quotient decides in Python, goes to the even neighbour
RoundedMean(confs) ==
    LET n == Len(confs)
        q == Sum(confs) \div n
        r == Sum(confs) % n
    IN  IF 2 * r < n THEN q
        ELSE IF 2 * r > n THEN q + 1
        ELSE IF q % 2 = 0 THEN q ELSE q + 1

(***************************************************************************)
(* The required-field check, the exception handler of the extraction       *)
(* block and the document writer.                                          *)
(***************************************************************************)
\* line 310, as a bug would have it
RequiredMissingBoth(fecha, monto) == IsNone(fecha) /\ IsNone(monto)

\* line 310: `if fecha_transaccion is None or monto_total is None`
RequiredMissing(fecha, monto) == IsNone(fecha) \/ IsNone(monto)

\* lines 306-308, as a bug would have it: the error is logged and the run goes on
AfterExtractionErrorContinue == "required"

\* lines 306-308: the handler logs and returns
AfterExtractionError == "done"

Uuid(n) == [t |-> "uuid", v |-> <<n>>]
\* line 328: the values uuid.uuid4() may return
Uuid4Values == {Uuid(n) : n \in 1..MaxIds}

\* lines 330-338
final_cosmos_document(id) ==
    full_receipt_data @@
    [id |-> id, userId |-> user_id, id_usuario |-> user_id, username |-> username,
     directorio |-> random_subdirectory, blobURL |-> blob_url]

\* line 340, as a bug would have it: upsert_item replaces the item with the same id
upsert_item(items, body) ==
    [items |-> {d \in items : d["id"] # body["id"]} \cup {body}, raised |-> FALSE]

\* line 340: container.create_item inserts, and raises on an id already present
create_item(items, body) ==
    IF \E d \in items : d["id"] = body["id"]
    THEN [items |-> items, raised |-> TRUE]
    ELSE [items |-> items \cup {body}, raised |-> FALSE]

(***************************************************************************)
(* func701, lines 127-170: the dispatch on the event type and the parsing  *)
(* of the blob URL.                                                        *)
(***************************************************************************)
\* dict.get(key): None for a key the object lacks
Get(slot) == IF slot.t = "missing" THEN Null ELSE slot
\* `not x` for None, a str and a number
Falsy(x) == IsNone(x) \/ (x.t = "str" /\ x.v = <<>>) \/ (x.t = "num" /\ x.v[1] = 0)

\* line 152, as a bug would have it: only a blob named .placeholder at the top
IsPlaceholderExact(path) == path = <<".placeholder">>

\* line 152: blob_path.endswith('/.placeholder')
IsPlaceholder(path) == EndsWith(path, <<"/", ".placeholder">>)

\* line 160, as a bug would have it
PathAcceptedFromTwo(parts) == Len(parts) >= 2

\* line 160: len(blob_path_parts) >= 3
PathAccepted(parts) == Len(parts) >= 3

NoLocals ==
    [outcome |-> "proceed", blob_url |-> Null, blob_path |-> <<>>,
     container_name |-> <<>>, user_id |-> Null, random_subdirectory |-> Null,
     response |-> Null]

ParseEvent(e) ==
    LET data == e.data
        url == Get(data.url)
        url_parts == Split(url.v)
        path == Join(SliceFrom(url_parts, 4))
        blob_path_parts == Split(path)
        parsed == [NoLocals EXCEPT !.blob_url = url, !.blob_path = path,
                                   !.container_name = url_parts[4]]
    IN  IF e.event_type = SubscriptionValidationEvent
        THEN IF data.t # "dict"
             THEN [NoLocals EXCEPT !.outcome = "exception"]
             ELSE [NoLocals EXCEPT
                      !.outcome = "validated",
                      !.response = [t |-> "http", v |-> <<Get(data.validationCode)>>]]
        ELSE IF e.event_type # BlobCreatedEvent
        THEN [NoLocals EXCEPT !.outcome = "ignored"]
        ELSE IF data.t # "dict"
        THEN [NoLocals EXCEPT !.outcome = "exception"]
        ELSE IF Falsy(url)
        THEN [NoLocals EXCEPT !.outcome = "no_url", !.blob_url = url]
        ELSE IF url.t # "str"
        THEN [NoLocals EXCEPT !.outcome = "exception", !.blob_url = url]
        ELSE IF Len(url_parts) < 4
        THEN [NoLocals EXCEPT !.outcome = "bad_url", !.blob_url = url]
        ELSE IF IsPlaceholder(path)
        THEN [parsed EXCEPT !.outcome = "placeholder"]
        ELSE IF ~PathAccepted(blob_path_parts)
        THEN [parsed EXCEPT !.outcome = "malformed"]
        ELSE [parsed EXCEPT !.user_id = Str(blob_path_parts[1]),
                            !.random_subdirectory = Str(blob_path_parts[2])]

parseVars == <<blob_url, blob_path, container_name, user_id, random_subdirectory>>
dbVars == <<cnx, cursor, ssl_options, db_username, pending, db_fault>>
extractVars == <<blob_content, receipt_result, fecha_transaccion, monto_total,
                 extracted_items, full_receipt_data, item_confidences>>
hostVars == <<budget, event, env>>
fieldVars == <<field, fieldOut>>

\* the host delivers an event: a new invocation of func701, with fresh locals
Receive(E) ==
    /\ pc \in {"idle", "done"}
    /\ budget > 0
    /\ \E e \in E : event' = e
    /\ budget' = budget - 1
    /\ pc' = "start"
    /\ blob_url' = Null /\ blob_path' = <<>> /\ container_name' = <<>>
    /\ user_id' = Null /\ random_subdirectory' = Null /\ username' = Null
    /\ cnx' = "none" /\ cursor' = "none" /\ ssl_options' = "none"
    /\ db_username' = Null /\ pending' = "none" /\ db_fault' = "none"
    /\ blob_content' = "none" /\ receipt_result' = Null
    /\ fecha_transaccion' = Null /\ monto_total' = Null
    /\ extracted_items' = <<>> /\ full_receipt_data' = EmptyDict
    /\ item_confidences' = <<>>
    /\ calls' = {} /\ fault' = "none" /\ outcome' = "running"
    /\ raised' = FALSE /\ response' = Null
    /\ UNCHANGED <<env, docs, fieldVars>>

HandleEvent ==
    /\ pc = "start"
    /\ LET r == ParseEvent(event) IN
        /\ blob_url' = r.blob_url
        /\ blob_path' = r.blob_path
        /\ container_name' = r.container_name
        /\ user_id' = r.user_id
        /\ random_subdirectory' = r.random_subdirectory
        /\ response' = r.response
        /\ pc' = IF r.outcome = "proceed" THEN "lookup" ELSE "done"
        /\ outcome' = IF r.outcome = "proceed" THEN outcome ELSE r.outcome
        /\ raised' = (r.outcome = "exception")
    /\ UNCHANGED <<hostVars, username, dbVars, extractVars, calls, fault, docs,
                   fieldVars>>

(***************************************************************************)
(* get_username_from_db, lines 17-94, called at line 172.  Each call of    *)
(* the MySQL client may succeed or raise; a connection the server dropped  *)
(* is "lost" (cnx.open is False).                                          *)
(***************************************************************************)
\* lines 21-55: the credentials and the CA file
ResolverEnter ==
    /\ pc = "lookup"
    /\ calls' = calls \cup {"lookup"}
    /\ db_username' = Null
    /\ cnx' = "none"
    /\ IF ~env.mysql
       THEN /\ pending' = "return_none"
            /\ db_fault' = "credentials"
            /\ ssl_options' = "none"
            /\ pc' = "db_finally"
       ELSE /\ \E ca \in {"found", "not_found", "unset"} :
                 ssl_options' = IF ca = "found" THEN "ca" ELSE "empty"
            /\ pc' = "connect"
            /\ UNCHANGED <<pending, db_fault>>
    /\ UNCHANGED <<hostVars, parseVars, username, cursor, extractVars, fault,
                   outcome, raised, response, docs, fieldVars>>

\* the except clause, lines 83-85: log and `return None`, with the finally to run
ResolverFails(step, connection) ==
    /\ pending' = "return_none"
    /\ db_fault' = step
    /\ cnx' = connection
    /\ pc' = "db_finally"

\* lines 59-67
Connect ==
    /\ pc = "connect"
    /\ \E ok \in BOOLEAN :
          IF ok
          THEN cnx' = "open" /\ pc' = "cursor" /\ UNCHANGED <<pending, db_fault>>
          ELSE ResolverFails("connect", "none")
    /\ UNCHANGED <<hostVars, parseVars, username, cursor, ssl_options, db_username,
                   extractVars, calls, fault, outcome, raised, response, docs,
                   fieldVars>>

\* line 69
CreateCursor ==
    /\ pc = "cursor"
    /\ \E ok \in BOOLEAN :
          IF ok
          THEN /\ cursor' = "open" /\ pc' = "execute"
               /\ UNCHANGED <<cnx, pending, db_fault>>
          ELSE ResolverFails("cursor", cnx) /\ UNCHANGED cursor
    /\ UNCHANGED <<hostVars, parseVars, username, ssl_options, db_username,
                   extractVars, calls, fault, outcome, raised, response, docs,
                   fieldVars>>

\* lines 72-73
Execute ==
    /\ pc = "execute"
    /\ \E o \in {"ok", "error", "lost"} :
          IF o = "ok"
          THEN pc' = "fetchone" /\ UNCHANGED <<cnx, pending, db_fault>>
          ELSE ResolverFails("execute", IF o = "lost" THEN "lost" ELSE cnx)
    /\ UNCHANGED <<hostVars, parseVars, username, cursor, ssl_options, db_username,
                   extractVars, calls, fault, outcome, raised, response, docs,
                   fieldVars>>

\* lines 76-81
FetchOne ==
    /\ pc = "fetchone"
    /\ \E o \in {"row", "no_row", "error", "lost"} :
          IF o \in {"row", "no_row"}
          THEN /\ db_username' = IF o = "row" THEN Str(<<"alice">>) ELSE Null
               /\ pending' = "fall_through"
               /\ pc' = "db_finally"
               /\ UNCHANGED <<cnx, db_fault>>
          ELSE /\ ResolverFails("fetch", IF o = "lost" THEN "lost" ELSE cnx)
               /\ UNCHANGED db_username
    /\ UNCHANGED <<hostVars, parseVars, username, cursor, ssl_options, extractVars,
                   calls, fault, outcome, raised, response, docs, fieldVars>>

\* lines 87-94, and the return to line 172: the finally clause closes the cursor
\* and the connection if `cnx and cnx.open`; a close that raises replaces the
\* pending return, and func701 has no handler around the call
ResolverFinally ==
    /\ pc = "db_finally"
    /\ \E o \in {"closed", "cursor_close_raises", "cnx_close_raises"} :
          IF cnx = "open" /\ o = "cursor_close_raises" /\ cursor = "open"
          THEN /\ pending' = "raise"
               /\ UNCHANGED <<cnx, cursor>>
          ELSE IF cnx = "open" /\ o = "cnx_close_raises"
          THEN /\ pending' = "raise"
               /\ cursor' = IF cursor = "open" THEN "closed" ELSE cursor
               /\ UNCHANGED cnx
          ELSE /\ cursor' = IF cnx = "open" /\ cursor = "open" THEN "closed"
                            ELSE cursor
               /\ cnx' = IF cnx = "open" THEN "closed" ELSE cnx
               /\ UNCHANGED pending
    /\ IF pending' = "raise"
       THEN /\ db_fault' = IF db_fault = "none" THEN "cleanup" ELSE db_fault
            /\ pc' = "done"
            /\ outcome' = "exception"
            /\ raised' = TRUE
            /\ UNCHANGED username
       ELSE /\ username' = IF pending = "return_none" THEN Null ELSE db_username
            /\ pc' = "di_config"
            /\ UNCHANGED <<db_fault, outcome, raised>>
    /\ UNCHANGED <<hostVars, parseVars, ssl_options, db_username, extractVars,
                   calls, fault, response, docs, fieldVars>>

(***************************************************************************)
(* func701, lines 176-308: the extraction block.  An exception anywhere in *)
(* the try is logged by the handler at lines 306-308.                      *)
(***************************************************************************)
\* the state the locals of the block are left in when `step` raises
ExtractionFails(step) ==
    /\ fault' = step
    /\ pc' = AfterExtractionError
    /\ outcome' = IF AfterExtractionError = "done" THEN "extraction_error"
                  ELSE outcome

\* lines 176-187; the frame of get_username_from_db is gone
CheckExtractionConfig ==
    /\ pc = "di_config"
    /\ cnx' = "none" /\ cursor' = "none" /\ ssl_options' = "none"
    /\ db_username' = Null /\ pending' = "none"
    /\ IF env.di
       THEN pc' = "download" /\ UNCHANGED outcome
       ELSE pc' = "done" /\ outcome' = "no_di_config"
    /\ UNCHANGED <<hostVars, parseVars, username, db_fault, extractVars, calls,
                   fault, raised, response, docs, fieldVars>>

\* lines 190-192
Download ==
    /\ pc = "download"
    /\ IF ~env.storage
       THEN ExtractionFails("storage_config") /\ UNCHANGED <<calls, blob_content>>
       ELSE /\ calls' = calls \cup {"fetch"}
            /\ \E ok \in BOOLEAN :
                 IF ok
                 THEN /\ blob_content' = "raw" /\ pc' = "normalize"
                      /\ UNCHANGED <<fault, outcome>>
                 ELSE ExtractionFails("download") /\ UNCHANGED blob_content
    /\ UNCHANGED <<hostVars, parseVars, username, dbVars, receipt_result,
                   fecha_transaccion, monto_total, extracted_items,
                   full_receipt_data, item_confidences, raised, response, docs,
                   fieldVars>>

\* lines 195-211: grayscale JPEG, or the original bytes when Pillow raises
Normalize ==
    /\ pc = "normalize"
    /\ \E ok \in BOOLEAN : blob_content' = IF ok THEN "gray" ELSE blob_content
    /\ pc' = "analyze"
    /\ UNCHANGED <<hostVars, parseVars, username, dbVars, receipt_result,
                   fecha_transaccion, monto_total, extracted_items,
                   full_receipt_data, item_confidences, calls, fault, outcome,
                   raised, response, docs, fieldVars>>

\* lines 213-222: begin_analyze_document and poller.result()
Analyze(R) ==
    /\ pc = "analyze"
    /\ calls' = calls \cup {"extract"}
    /\ \E o \in {"result", "submit", "poll"} :
          IF o = "result"
          THEN /\ \E r \in R : receipt_result' = r
               /\ pc' = "map_required"
               /\ UNCHANGED <<fault, outcome>>
          ELSE ExtractionFails(o) /\ UNCHANGED receipt_result
    /\ UNCHANGED <<hostVars, parseVars, username, dbVars, blob_content,
                   fecha_transaccion, monto_total, extracted_items,
                   full_receipt_data, item_confidences, raised, response, docs,
                   fieldVars>>

\* the fields of the first document; only reached with a document
DocFields == receipt_result.documents[1].fields

\* lines 224-236
MapRequired ==
    /\ pc = "map_required"
    /\ IF receipt_result.documents = <<>>
       THEN /\ pc' = "score"
            /\ UNCHANGED <<fecha_transaccion, monto_total, full_receipt_data,
                           fault, outcome>>
       ELSE LET hasFecha == "FechaTransaccion" \in DOMAIN DocFields
                hasMonto == "MontoTotal" \in DOMAIN DocFields
                fecha == IF hasFecha THEN get_field_value(DocFields["FechaTransaccion"])
                         ELSE Null
                monto == IF hasMonto THEN get_field_value(DocFields["MontoTotal"])
                         ELSE Null
                withFecha == IF hasFecha
                             THEN ("fechaTransaccion" :> fecha) @@ full_receipt_data
                             ELSE full_receipt_data
            IN  IF fecha.t = "raise"
                THEN /\ ExtractionFails("map")
                     /\ UNCHANGED <<fecha_transaccion, monto_total, full_receipt_data>>
                ELSE IF monto.t = "raise"
                THEN /\ ExtractionFails("map")
                     /\ fecha_transaccion' = fecha
                     /\ full_receipt_data' = withFecha
                     /\ UNCHANGED monto_total
                ELSE /\ fecha_transaccion' = fecha
                     /\ monto_total' = monto
                     /\ full_receipt_data' =
                            IF hasMonto THEN ("montoTotal" :> monto) @@ withFecha
                            ELSE withFecha
                     /\ pc' = "map_items"
                     /\ UNCHANGED <<fault, outcome>>
    /\ UNCHANGED <<hostVars, parseVars, username, dbVars, blob_content,
                   receipt_result, extracted_items, item_confidences, calls, raised,
                   response, docs, fieldVars>>

List(items) == [t |-> "list", v |-> items]

\* lines 238-276
MapItems ==
    /\ pc = "map_items"
    /\ IF "Items" \notin DOMAIN DocFields \/ DocFields["Items"].value_array.t # "array"
          \/ DocFields["Items"].value_array.v = <<>>
       THEN /\ pc' = "map_others"
            /\ UNCHANGED <<extracted_items, item_confidences, full_receipt_data,
                           fault, outcome>>
       ELSE LET r == MapItemArray(DocFields["Items"].value_array.v,
                                  [items |-> extracted_items,
                                   confs |-> item_confidences, raised |-> FALSE])
            IN  /\ extracted_items' = r.items
                /\ item_confidences' = r.confs
                /\ IF r.raised
                   THEN ExtractionFails("map") /\ UNCHANGED full_receipt_data
                   ELSE /\ full_receipt_data' =
                              ("items" :> List(r.items)) @@ full_receipt_data
                        /\ pc' = "map_others"
                        /\ UNCHANGED <<fault, outcome>>
    /\ UNCHANGED <<hostVars, parseVars, username, dbVars, blob_content,
                   receipt_result, fecha_transaccion, monto_total, calls, raised,
                   response, docs, fieldVars>>

\* lines 278-295
MapOthers ==
    /\ pc = "map_others"
    /\ LET r == CopyFields(DocFields, OtherFieldKeys,
                           [data |-> full_receipt_data, confs |-> <<>>,
                            raised |-> FALSE])
       IN  /\ full_receipt_data' = r.data
           /\ IF r.raised
              THEN ExtractionFails("map")
              ELSE pc' = "score" /\ UNCHANGED <<fault, outcome>>
    /\ UNCHANGED <<hostVars, parseVars, username, dbVars, blob_content,
                   receipt_result, fecha_transaccion, monto_total, extracted_items,
                   item_confidences, calls, raised, response, docs, fieldVars>>

\* lines 299-304
Score ==
    /\ pc = "score"
    /\ full_receipt_data' =
          ("itemsConfidenceScore" :>
              IF item_confidences # <<>> THEN Num(RoundedMean(item_confidences))
              ELSE Null) @@ full_receipt_data
    /\ pc' = "required"
    /\ UNCHANGED <<hostVars, parseVars, username, dbVars, blob_content,
                   receipt_result, fecha_transaccion, monto_total, extracted_items,
                   item_confidences, calls, fault, outcome, raised, response, docs,
                   fieldVars>>

(***************************************************************************)
(* func701, lines 310-348: the required fields and the document write.     *)
(***************************************************************************)
\* lines 310-312
CheckRequired ==
    /\ pc = "required"
    /\ IF RequiredMissing(fecha_transaccion, monto_total)
       THEN pc' = "done" /\ outcome' = "missing_required"
       ELSE pc' = "cosmos_config" /\ UNCHANGED outcome
    /\ UNCHANGED <<hostVars, parseVars, username, dbVars, extractVars, calls,
                   fault, raised, response, docs, fieldVars>>

\* lines 314-321
CheckCosmosConfig ==
    /\ pc = "cosmos_config"
    /\ IF env.cosmos
       THEN pc' = "write" /\ UNCHANGED outcome
       ELSE pc' = "done" /\ outcome' = "no_cosmos_config"
    /\ UNCHANGED <<hostVars, parseVars, username, dbVars, extractVars, calls,
                   fault, raised, response, docs, fieldVars>>

\* lines 323-348: the clients, the fresh identifier, the document, create_item;
\* an exception of any of them is logged at line 346
WriteDocument ==
    /\ pc = "write"
    /\ \E o \in {"created", "client_error", "service_error"} :
       \E id \in Uuid4Values :
          LET r == create_item(docs, final_cosmos_document(id)) IN
          /\ calls' = IF o = "client_error" THEN calls ELSE calls \cup {"write"}
          /\ docs' = IF o = "created" THEN r.items ELSE docs
          /\ outcome' = IF o = "created" /\ ~r.raised THEN "written"
                        ELSE "write_error"
          /\ fault' = IF o = "created" /\ ~r.raised THEN fault ELSE "write"
    /\ pc' = "done"
    /\ UNCHANGED <<hostVars, parseVars, username, dbVars, extractVars, raised,
                   response, fieldVars>>

(***************************************************************************)
(* get_field_value applied to an argument.                                 *)
(***************************************************************************)
Unset == [t |-> "unset", v |-> <<>>]

ApplyField ==
    /\ fieldOut = Unset
    /\ fieldOut' = get_field_value(field)
    /\ UNCHANGED <<hostVars, pc, parseVars, username, dbVars, extractVars, calls,
                   fault, outcome, raised, response, docs, field>>

(***************************************************************************)
(* Specifications.                                                         *)
(***************************************************************************)
InitWith(n, E, F) ==
    /\ budget = n
    /\ env \in E
    /\ pc = "idle"
    /\ event = NoEvent
    /\ blob_url = Null /\ blob_path = <<>> /\ container_name = <<>>
    /\ user_id = Null /\ random_subdirectory = Null /\ username = Null
    /\ cnx = "none" /\ cursor = "none" /\ ssl_options = "none"
    /\ db_username = Null /\ pending = "none" /\ db_fault = "none"
    /\ blob_content = "none" /\ receipt_result = Null
    /\ fecha_transaccion = Null /\ monto_total = Null
    /\ extracted_items = <<>> /\ full_receipt_data = EmptyDict
    /\ item_confidences = <<>>
    /\ calls = {} /\ fault = "none" /\ outcome = "none"
    /\ raised = FALSE /\ response = Null
    /\ docs = {}
    /\ field \in F /\ fieldOut = Unset

Handler(E, R) ==
    \/ Receive(E)
    \/ HandleEvent
    \/ ResolverEnter
    \/ Connect
    \/ CreateCursor
    \/ Execute
    \/ FetchOne
    \/ ResolverFinally
    \/ CheckExtractionConfig
    \/ Download
    \/ Normalize
    \/ Analyze(R)
    \/ MapRequired
    \/ MapItems
    \/ MapOthers
    \/ Score
    \/ CheckRequired
    \/ CheckCosmosConfig
    \/ WriteDocument

\* one invocation, any environment, any kind of event, any outcome of every call
Init == InitWith(1, Envs, {Null})
Next == Handler(Events, Results)
Spec == Init /\ [][Next]_vars

\* one invocation on every blob URL up to MaxTail tokens
InitPath == InitWith(1, {FullEnv}, {Null})
NextPath == Handler(PathEvents, {GoodResult})
SpecPath == InitPath /\ [][NextPath]_vars

\* one invocation on every Items array up to MaxItems entries
InitItems == InitWith(1, {FullEnv}, {Null})
NextItems == Handler(RepeatEvents, ItemResults)
SpecItems == InitItems /\ [][NextItems]_vars

\* MaxRuns invocations on the same event
InitRepeat == InitWith(MaxRuns, {FullEnv}, {Null})
NextRepeat == Handler(RepeatEvents, RepeatResults)
SpecRepeat == InitRepeat /\ [][NextRepeat]_vars

\* get_field_value on every typed field
InitField == InitWith(0, {FullEnv}, TypedFields)
NextField == ApplyField
SpecField == InitField /\ [][NextField]_vars

(***************************************************************************)
(* Claims.                                                                 *)
(***************************************************************************)
\* a value was extracted: get_field_value returned something other than None
Extracted(v) == v.t \in {"str", "num"}

\* what get_field_value yields for a named field of the first analysed document
ExtractedFrom(result, name) ==
    IF result.t # "result" \/ result.documents = <<>> THEN Null
    ELSE IF name \notin DOMAIN result.documents[1].fields THEN Null
    ELSE get_field_value(result.documents[1].fields[name])

\* C1: the document writer is invoked, and a document is stored, only if the
\* extracted fechaTransaccion and the extracted montoTotal are both non-null;
\* with either missing the run ends without a write, whatever else was extracted.
C1_RequiredFieldGating ==
    /\ ("write" \in calls \/ docs # {}) =>
           /\ Extracted(ExtractedFrom(receipt_result, "FechaTransaccion"))
           /\ Extracted(ExtractedFrom(receipt_result, "MontoTotal"))
    /\ \A d \in docs :
           /\ {"fechaTransaccion", "montoTotal"} \subseteq DOMAIN d
           /\ Extracted(d["fechaTransaccion"]) /\ Extracted(d["montoTotal"])
    /\ (pc = "done" /\ outcome = "missing_required") => "write" \notin calls

\* C1 witness: a run that extracted the date and other fields but no total ended
\* without calling the writer.
C1_Witness ==
    /\ pc = "done" /\ outcome = "missing_required"
    /\ Extracted(fecha_transaccion) /\ IsNone(monto_total)
    /\ "nombreComercio" \in DOMAIN full_receipt_data
    /\ "write" \notin calls /\ docs = {}

\* C2 (as claimed): no exception leaves func701, whatever step fails.
C2_NoExceptionEscapes == ~raised

\* C3 (as claimed): a failed username lookup never raises, and the run still
\* stores a document without username when extraction succeeded and both
\* required fields are present.
C3_ResolverResilience ==
    /\ db_fault # "none" => ~raised
    /\ (/\ pc = "done" /\ db_fault # "none"
        /\ receipt_result.t = "result" /\ fault \notin {"submit", "poll", "map"}
        /\ Extracted(fecha_transaccion) /\ Extracted(monto_total))
       => \E d \in docs : IsNone(d["username"])

\* get_username_from_db has handed control back, by a return or by an exception
ResolverExited == pc = "di_config" \/ (pc = "done" /\ pending = "raise")

\* C4 (as claimed): whenever get_username_from_db hands control back after
\* having opened a connection, the connection and its cursor are closed.
C4_ResolverReleases ==
    (ResolverExited /\ cnx # "none") => cnx # "open" /\ cursor # "open"

\* C5: when the blob download, the submission to the extraction service or the
\* polling for its result fails (or the mapping of the result raises), the
\* document writer is not invoked and nothing is stored.
C5_FatalCollaboratorFailure ==
    fault \in {"storage_config", "download", "submit", "poll", "map"} =>
        "write" \notin calls /\ docs = {}

\* C5 witness: the polling failed after the blob was fetched and submitted, and
\* the run ended without a write.
C5_Witness ==
    /\ pc = "done" /\ fault = "poll"
    /\ {"fetch", "extract"} \subseteq calls /\ "write" \notin calls /\ docs = {}

\* the segments of the URL after the container
ObjectPath(e) == SliceFrom(Split(e.data.url.v), 4)
Handled == pc # "start" /\ event.event_type = BlobCreatedEvent /\ event.data.url.t = "str"

\* C6: a BlobCreated event whose object path has fewer than 3 segments ends the
\* invocation in the parsing step: no username lookup, blob fetch, extraction
\* call or document write happens.
C6_MalformedPath ==
    (Handled /\ Len(ObjectPath(event)) < 3) =>
        /\ pc = "done" /\ outcome \in {"malformed", "placeholder", "bad_url"}
        /\ calls = {} /\ docs = {}

\* C6 witness: a two-segment path was rejected as malformed before any call.
C6_Witness ==
    /\ Handled /\ Len(ObjectPath(event)) = 2
    /\ pc = "done" /\ outcome = "malformed" /\ calls = {}

\* the object path has an owner prefix and its final segment is .placeholder
PlaceholderPath(e) ==
    LET p == ObjectPath(e) IN Len(p) >= 2 /\ p[Len(p)] = <<".placeholder">>

\* C7: a BlobCreated event whose path ends in the segment .placeholder, under
\* any container and owner prefix, is a no-op: the invocation returns normally
\* before calling any collaborator and never invokes the document writer.
C7_PlaceholderSkip ==
    (Handled /\ PlaceholderPath(event)) =>
        /\ pc = "done" /\ outcome = "placeholder" /\ ~raised
        /\ calls = {} /\ docs = {}

\* C7 witness: a placeholder three segments deep, which the segment count would
\* have accepted, was skipped.
C7_Witness ==
    /\ Handled /\ PlaceholderPath(event) /\ Len(ObjectPath(event)) >= 3
    /\ pc = "done" /\ outcome = "placeholder" /\ calls = {}

\* C8: every successful run adds exactly one document, under an identifier no
\* stored document has, and no step changes or removes a stored document; two
\* successful runs on the same event leave two documents with different ids.
C8_NonIdempotent ==
    [][/\ docs \subseteq docs'
       /\ (pc = "write" /\ outcome' = "written") =>
              \E d \in docs' \ docs :
                 /\ docs' = docs \cup {d}
                 /\ \A e \in docs : e["id"] # d["id"]
                 /\ d["blobURL"] = blob_url]_vars

\* C8 witness: two stored documents of the same blob that differ in the id only.
C8_Witness ==
    \E d1, d2 \in docs :
        /\ d1["id"] # d2["id"]
        /\ DOMAIN d1 = DOMAIN d2
        /\ \A k \in DOMAIN d1 \ {"id"} : d1[k] = d2[k]
        /\ budget = 0 /\ pc = "done" /\ outcome = "written"

\* which of the six representations of a field are populated, in the order
\* string, number, date, time, currency amount, generic value
PopulatedAt(f) ==
    <<Populated(f.value_string), Populated(f.value_number), Populated(f.value_date),
      Populated(f.value_time),
      Populated(f.value_currency) /\ Populated(f.value_currency.v[1]),
      Populated(f.value)>>
FirstPopulated(f) ==
    IF \A k \in 1..6 : ~PopulatedAt(f)[k] THEN 0
    ELSE CHOOSE k \in 1..6 : PopulatedAt(f)[k] /\ \A j \in 1..(k - 1) : ~PopulatedAt(f)[j]

\* the number a sequence of decimal digits denotes
RECURSIVE Decimal(_)
Decimal(digits) ==
    IF digits = <<>> THEN 0
    ELSE 10 * Decimal(SubSeq(digits, 1, Len(digits) - 1))
         + (CHOOSE n \in 0..9 : DigitChar(n) = digits[Len(digits)])

\* text is three numbers of the given widths, separated by sep
Rendered(text, widths, sep, numbers) ==
    /\ text.t = "str"
    /\ Len(text.v) = widths[1] + widths[2] + widths[3] + 2
    /\ text.v[widths[1] + 1] = sep /\ text.v[widths[1] + widths[2] + 2] = sep
    /\ Decimal(SubSeq(text.v, 1, widths[1])) = numbers[1]
    /\ Decimal(SubSeq(text.v, widths[1] + 2, widths[1] + widths[2] + 1)) = numbers[2]
    /\ Decimal(SubSeq(text.v, widths[1] + widths[2] + 3, Len(text.v))) = numbers[3]

\* C9: get_field_value returns the first populated representation in the order
\* string, number, date (as YYYY-MM-DD), time (as HH:MM:SS), currency amount,
\* generic value, and None when none is populated (or the field is None).
C9_ScalarFallbackOrder ==
    fieldOut # Unset =>
        IF IsNone(field) THEN IsNone(fieldOut)
        ELSE LET k == FirstPopulated(field) IN
             /\ k = 0 => IsNone(fieldOut)
             /\ k = 1 => fieldOut = field.value_string
             /\ k = 2 => fieldOut = field.value_number
             /\ k = 3 => Rendered(fieldOut, <<4, 2, 2>>, "-", field.value_date.v)
             /\ k = 4 => Rendered(fieldOut, <<2, 2, 2>>, ":", field.value_time.v)
             /\ k = 5 => fieldOut = field.value_currency.v[1]
             /\ k = 6 => fieldOut = field.value

\* C9 witness: a field with a string and a number populated yielded the string.
C9_Witness ==
    /\ fieldOut # Unset /\ ~IsNone(field)
    /\ Populated(field.value_string) /\ Populated(field.value_number)
    /\ fieldOut = field.value_string

\* an entry of the Items array from which a sub-field value was extracted
ValueExtracted(item) ==
    /\ HasValueObject(item)
    /\ \E k \in 1..Len(SubFieldKeys) :
          /\ SubFieldKeys[k][1] \in DOMAIN item.value_object.v
          /\ Extracted(get_field_value(item.value_object.v[SubFieldKeys[k][1]]))

\* the LineItem of an entry
LineItem(item) ==
    CopyFields(item.value_object.v, SubFieldKeys,
               [data |-> EmptyDict, confs |-> <<>>, raised |-> FALSE]).data

RECURSIVE ItemsWithValues(_)
ItemsWithValues(arr) ==
    IF arr = <<>> THEN <<>>
    ELSE (IF ValueExtracted(Head(arr)) THEN <<LineItem(Head(arr))>> ELSE <<>>)
         \o ItemsWithValues(Tail(arr))

\* C10 (as claimed): after the Items array is mapped, the record's items are, in
\* the order of the array, the LineItems of exactly the entries from which at
\* least one sub-field value was extracted.
C10_LineItemInclusion ==
    (pc = "map_others" /\ "Items" \in DOMAIN DocFields
        /\ DocFields["Items"].value_array.t = "array") =>
        extracted_items = ItemsWithValues(DocFields["Items"].value_array.v)

====
